---- MODULE Spec2Model ----
(***************************************************************************)
(* A model of bevy_sk's sky-texture code (src/src/skytex.rs) and of the    *)
(* plugin wiring that runs it (src/src/lib.rs).                            *)
(*                                                                         *)
(*   Spec          the Update schedule: cameras are spawned, setup_skytex  *)
(*                 runs once per tick, deferred commands are applied.      *)
(*   SpecCubemap   one call of generate_cubemap, from its arguments to the *)
(*                 packed RGBA8 buffer, one step per loop iteration.       *)
(*   SpecWindowing two calls of sh_windowing on the same coefficients with *)
(*                 two window widths, one step per coefficient.            *)
(*                                                                         *)
(* f32 values are modelled bit-exactly (IEEE 754 binary32, round to        *)
(* nearest even, with NaN, infinities, signed zeros and subnormals); u32   *)
(* and i32 values keep their width.                                        *)
(***************************************************************************)
EXTENDS Integers, Sequences, FiniteSets, TLC

(***************************************************************************)
(* f32                                                                     *)
(*                                                                         *)
(* A value is a record [k, s, m, e]: k is its class, s its sign bit, and   *)
(* a "num" is (-1)^s * m * 2^e with 2^23 <= m < 2^24 (normal, e <= 104) or *)
(* m < 2^23 and e = -149 (subnormal).                                      *)
(***************************************************************************)
\* Sequencing: Body applied to the value of e, computed before Body starts.
Then(e, Body(_)) == CHOOSE r \in {Body(p) : p \in {e}} : TRUE

Pow2 == [n \in 0..30 |-> 2^n]

NaN == [k |-> "nan", s |-> 0, m |-> 0, e |-> 0]

Inf(s) == [k |-> "inf", s |-> s, m |-> 0, e |-> 0]

Zero(s) == [k |-> "zero", s |-> s, m |-> 0, e |-> 0]

Num(s, m, e) == [k |-> "num", s |-> s, m |-> m, e |-> e]

\* The number of bits of M, 0 <= M < 2^31.
BitLen(M) ==
    CASE M < 2 -> M
      [] M < 4 -> 2 [] M < 8 -> 3 [] M < 16 -> 4
      [] M < 32 -> 5 [] M < 64 -> 6 [] M < 128 -> 7
      [] M < 256 -> 8 [] M < 512 -> 9 [] M < 1024 -> 10
      [] M < 2048 -> 11 [] M < 4096 -> 12 [] M < 8192 -> 13
      [] M < 16384 -> 14 [] M < 32768 -> 15 [] M < 65536 -> 16
      [] M < 131072 -> 17 [] M < 262144 -> 18 [] M < 524288 -> 19
      [] M < 1048576 -> 20 [] M < 2097152 -> 21 [] M < 4194304 -> 22
      [] M < 8388608 -> 23 [] M < 16777216 -> 24 [] M < 33554432 -> 25
      [] M < 67108864 -> 26 [] M < 134217728 -> 27 [] M < 268435456 -> 28
      [] M < 536870912 -> 29 [] M < 1073741824 -> 30
      [] OTHER -> 31

\* A rounded significand m <= 2^24 at exponent e, as an f32.
Pack(s, m, e) ==
    CASE m = 0 -> Zero(s)
      [] m = 16777216 -> (IF e + 1 > 104 THEN Inf(s) ELSE Num(s, 8388608, e + 1))
      [] e > 104 -> Inf(s)
      [] OTHER -> Num(s, m, e)

\* The quotient q of a significand and its remainder r against half a unit in
\* the last place: round up above half, and at half if sticky or q is odd.
RoundUp(q, r, half, sticky) ==
    IF r > half \/ (r = half /\ (sticky \/ q % 2 = 1)) THEN q + 1 ELSE q

\* M rounded to exponent et >= -149.
RoundAt(s, M, E, sticky, et) ==
    CASE et <= E -> Pack(s, M * Pow2[E - et], et)
      [] et - E > 31 -> Zero(s)
      [] et - E = 31 -> Pack(s, RoundUp(0, M, 1073741824, sticky), et)
      [] OTHER -> Pack(s, RoundUp(M \div Pow2[et - E], M % Pow2[et - E],
                                  Pow2[et - E - 1], sticky), et)

\* The exponent of a 24-bit significand, that of the subnormals at least.
ResultExponent(t) == IF t > -149 THEN t ELSE -149

\* Round to nearest, ties to even: the f32 nearest to (M + f) * 2^E, where
\* 0 < f < 1 if sticky and f = 0 if not. With sticky, M holds 26 bits or more.
Round(s, M, E, sticky) ==
    IF M = 0 THEN Zero(s)
    ELSE RoundAt(s, M, E, sticky, ResultExponent(E + BitLen(M) - 24))

\* u32 / usize / integer literal as f32.
FromInt(n) == IF n >= 0 THEN Round(0, n, 0, FALSE) ELSE Round(1, -n, 0, FALSE)

FNeg(a) == IF a.k = "nan" THEN a ELSE [a EXCEPT !.s = 1 - a.s]

FAbs(a) == IF a.k = "nan" THEN a ELSE [a EXCEPT !.s = 0]

IsFinite(a) == a.k \in {"zero", "num"}

\* The 48-bit product high * 2^24 + low, shifted by d bits to fit 30 bits.
MulShift(s, e, high, low, d) ==
    Round(s, high * Pow2[24 - d] + low \div Pow2[d], e + d, low % Pow2[d] # 0)

\* The product of two nums, from the partial products of the 12-bit halves of
\* the significands.
MulNum(a, b) ==
    LET mid  == (a.m \div 4096) * (b.m % 4096) + (a.m % 4096) * (b.m \div 4096)
        lows == (a.m % 4096) * (b.m % 4096) + (mid % 4096) * 4096
        high == (a.m \div 4096) * (b.m \div 4096) + mid \div 4096 + lows \div 16777216
    IN  MulShift((a.s + b.s) % 2, a.e + b.e, high, lows % 16777216,
                 IF BitLen(high) > 6 THEN BitLen(high) - 6 ELSE 0)

FMul(a, b) ==
    CASE a.k = "num" /\ b.k = "num" -> MulNum(a, b)
      [] a.k = "nan" \/ b.k = "nan" -> NaN
      [] a.k = "inf" \/ b.k = "inf" ->
             (IF a.k = "zero" \/ b.k = "zero" THEN NaN ELSE Inf((a.s + b.s) % 2))
      [] OTHER -> Zero((a.s + b.s) % 2)

\* Seven more quotient bits of a long division by nb: qr = <<quotient, remainder>>.
DivStep(qr, nb) == <<qr[1] * 128 + (qr[2] * 128) \div nb, (qr[2] * 128) % nb>>

DivRound(s, q4, e) == Round(s, q4[1], e, q4[2] # 0)

\* na and nb are the significands normalised to 24 bits.
DivLong(s, na, nb, e) ==
    DivRound(s, DivStep(DivStep(DivStep(DivStep(<<na \div nb, na % nb>>, nb), nb), nb), nb),
             e)

\* The quotient of two nums.
DivNum(a, b) ==
    DivLong((a.s + b.s) % 2, a.m * Pow2[24 - BitLen(a.m)], b.m * Pow2[24 - BitLen(b.m)],
            (a.e - (24 - BitLen(a.m))) - (b.e - (24 - BitLen(b.m))) - 28)

FDiv(a, b) ==
    CASE a.k = "num" /\ b.k = "num" -> DivNum(a, b)
      [] a.k = "nan" \/ b.k = "nan" -> NaN
      [] a.k = "inf" -> (IF b.k = "inf" THEN NaN ELSE Inf((a.s + b.s) % 2))
      [] b.k = "inf" -> Zero((a.s + b.s) % 2)
      [] b.k = "zero" -> (IF a.k = "zero" THEN NaN ELSE Inf((a.s + b.s) % 2))
      [] OTHER -> Zero((a.s + b.s) % 2)

\* X and Y are the significands aligned at exponent E; st says that bits of
\* the smaller operand were shifted out.
AddAligned(xs, ys, X, Y, E, st) ==
    CASE xs = ys -> Round(xs, X + Y, E, st)
      [] X = Y /\ ~st -> Zero(0)
      [] X > Y -> Round(xs, IF st THEN X - Y - 1 ELSE X - Y, E, st)
      [] OTHER -> Round(ys, Y - X, E, FALSE)

\* The sum of two nums, x.e >= y.e: y is shifted right by x.e - y.e bits.
AddOrdered(x, y) ==
    CASE x.e - y.e <= 5 ->
             AddAligned(x.s, y.s, x.m * 32, y.m * Pow2[5 - (x.e - y.e)], x.e - 5, FALSE)
      [] x.e - y.e <= 35 ->
             AddAligned(x.s, y.s, x.m * 32, y.m \div Pow2[x.e - y.e - 5], x.e - 5,
                        y.m % Pow2[x.e - y.e - 5] # 0)
      [] OTHER -> AddAligned(x.s, y.s, x.m * 32, 0, x.e - 5, TRUE)

FAdd(a, b) ==
    CASE a.k = "num" /\ b.k = "num" ->
             (IF a.e >= b.e THEN AddOrdered(a, b) ELSE AddOrdered(b, a))
      [] a.k = "nan" \/ b.k = "nan" -> NaN
      [] a.k = "inf" -> (IF b.k = "inf" /\ b.s # a.s THEN NaN ELSE a)
      [] b.k = "inf" -> b
      [] a.k = "zero" /\ b.k = "zero" -> (IF a.s = 1 /\ b.s = 1 THEN Zero(1) ELSE Zero(0))
      [] a.k = "zero" -> b
      [] OTHER -> a

FSub(a, b) == FAdd(a, FNeg(b))

\* Square root with remainder by halves (Zimmermann's Karatsuba square root):
\* sr = <<root, remainder>> of the high half a3 * b + a2 of the four limbs
\* a3, a2, a1, a0 in base b, a3 >= b / 4, gives <<root, remainder>> of the whole.
SqrtJoin(sr, a1, a0, b) ==
    LET q == (sr[2] * b + a1) \div (2 * sr[1])
        u == (sr[2] * b + a1) % (2 * sr[1])
    IN  IF u * b + a0 - q * q < 0
        THEN <<sr[1] * b + q - 1, u * b + a0 - q * q + 2 * (sr[1] * b + q) - 1>>
        ELSE <<sr[1] * b + q, u * b + a0 - q * q>>

\* <<root, remainder>> of h, 2^12 <= h < 2^14.
SqrtBase(h) ==
    LET root == CHOOSE r \in 64..127 : r * r <= h /\ h < (r + 1) * (r + 1)
    IN  <<root, h - root * root>>

\* <<root, remainder>> of H, 2^26 <= H < 2^28.
SqrtHigh(H) == SqrtJoin(SqrtBase(H \div 16384), (H \div 128) % 128, H % 128, 128)

SqrtRound(rr, ee) == Round(0, rr[1], (ee \div 2) - 15, rr[2] # 0)

\* The root of mm * 2^ee, ee even and 2^24 <= mm < 2^26: that of the integer
\* mm * 2^30, whose high half is mm * 4 and whose low half is zero.
SqrtEven(mm, ee) == SqrtRound(SqrtJoin(SqrtHigh(mm * 4), 0, 0, 16384), ee)

\* The root of a num, its significand normalised to 24 bits.
SqrtNum(a) ==
    IF (a.e - (24 - BitLen(a.m))) % 2 = 1
    THEN SqrtEven(a.m * Pow2[24 - BitLen(a.m)] * 2, a.e - (24 - BitLen(a.m)) - 1)
    ELSE SqrtEven(a.m * Pow2[24 - BitLen(a.m)] * 4, a.e - (24 - BitLen(a.m)) - 2)

FSqrt(a) ==
    CASE a.k = "nan" -> NaN
      [] a.k = "zero" -> a
      [] a.s = 1 -> NaN
      [] a.k = "inf" -> a
      [] OTHER -> SqrtNum(a)

\* -1, 0, 1 as a < b, a = b, a > b; neither is NaN.
Cmp(a, b) ==
    LET sg(v)  == IF v.k = "zero" THEN 0 ELSE IF v.s = 0 THEN 1 ELSE -1
        rk(v)  == IF v.k = "zero" THEN 0 ELSE IF v.k = "num" THEN 1 ELSE 2
        mag    == IF rk(a) # rk(b) THEN (IF rk(a) < rk(b) THEN -1 ELSE 1)
                  ELSE IF a.k # "num" THEN 0
                  ELSE IF a.e # b.e THEN (IF a.e < b.e THEN -1 ELSE 1)
                  ELSE IF a.m # b.m THEN (IF a.m < b.m THEN -1 ELSE 1)
                  ELSE 0
    IN  IF sg(a) # sg(b) THEN (IF sg(a) < sg(b) THEN -1 ELSE 1)
        ELSE IF sg(a) >= 0 THEN mag ELSE -mag

FLt(a, b) == a.k # "nan" /\ b.k # "nan" /\ Cmp(a, b) < 0

FGe(a, b) == a.k # "nan" /\ b.k # "nan" /\ Cmp(a, b) >= 0

FEq(a, b) == a.k # "nan" /\ b.k # "nan" /\ Cmp(a, b) = 0

\* f32::max: the other operand when one is NaN.
FMax(a, b) ==
    IF a.k = "nan" THEN b
    ELSE IF b.k = "nan" THEN a
    ELSE IF Cmp(a, b) < 0 THEN b ELSE a

\* f32::clamp: NaN stays NaN.
FClamp(v, lo, hi) ==
    IF v.k = "nan" THEN v
    ELSE IF Cmp(v, lo) < 0 THEN lo
    ELSE IF Cmp(v, hi) > 0 THEN hi
    ELSE v

\* `as u8`: truncation toward zero, saturating, NaN to 0.
ToU8(v) ==
    IF v.k = "nan" \/ v.k = "zero" THEN 0
    ELSE IF v.s = 1 THEN 0
    ELSE IF v.k = "inf" THEN 255
    ELSE IF v.e >= 0 THEN (IF v.e >= 8 \/ v.m * Pow2[v.e] > 255 THEN 255 ELSE v.m * Pow2[v.e])
    ELSE IF -v.e > 30 THEN 0
    ELSE LET t == v.m \div Pow2[-v.e] IN IF t > 255 THEN 255 ELSE t

\* A decimal literal num/den, correctly rounded (num, den < 2^24).
Lit(num, den) == FDiv(FromInt(num), FromInt(den))

(***************************************************************************)
(* glam vectors: a Vec3 is <<x, y, z>>, a Vec4 <<x, y, z, w>>, of f32.     *)
(* dot is x*x' + y*y' + z*z', normalize is self * (1 / length), lerp is    *)
(* self + (rhs - self) * s.                                                *)
(***************************************************************************)
F0 == Zero(0)

F1 == FromInt(1)

V3Neg(v) == <<FNeg(v[1]), FNeg(v[2]), FNeg(v[3])>>

V3Add(a, b) == <<FAdd(a[1], b[1]), FAdd(a[2], b[2]), FAdd(a[3], b[3])>>

V3Sub(a, b) == <<FSub(a[1], b[1]), FSub(a[2], b[2]), FSub(a[3], b[3])>>

\* Vec3 * f32
V3Scale(v, f) == <<FMul(v[1], f), FMul(v[2], f), FMul(v[3], f)>>

Dot(a, b) == FAdd(FAdd(FMul(a[1], b[1]), FMul(a[2], b[2])), FMul(a[3], b[3]))

Cross(a, b) ==
    << FSub(FMul(a[2], b[3]), FMul(b[2], a[3])),
       FSub(FMul(a[3], b[1]), FMul(b[3], a[1])),
       FSub(FMul(a[1], b[2]), FMul(b[1], a[2])) >>

LengthSquared(v) == Dot(v, v)

Normalize(v) == V3Scale(v, FDiv(F1, FSqrt(Dot(v, v))))

Lerp(a, b, f) == V3Add(a, V3Scale(V3Sub(b, a), f))

\* (v).abs().max_element()
AbsMaxElement(v) == FMax(FAbs(v[1]), FMax(FAbs(v[2]), FAbs(v[3])))

V3IsFinite(v) == IsFinite(v[1]) /\ IsFinite(v[2]) /\ IsFinite(v[3])

V3IsNaN(v) == v[1].k = "nan" /\ v[2].k = "nan" /\ v[3].k = "nan"

(***************************************************************************)
(* u32: a value is [hi, lo], two 16-bit halves.                            *)
(***************************************************************************)
U32(hi, lo) == [hi |-> hi, lo |-> lo]

\* A u32 below 2^31 as an integer.
U32ToInt(v) == v.hi * 65536 + v.lo

U32FromInt(n) == U32(n \div 65536, n % 65536)

\* `as f32`
U32ToF32(v) ==
    IF v.hi < 32768 THEN FromInt(U32ToInt(v))
    ELSE Round(0, v.hi * 32768 + v.lo \div 2, 1, v.lo % 2 = 1)

\* `as i32`: the same 32 bits, two's complement.
U32AsI32(v) == IF v.hi < 32768 THEN U32ToInt(v) ELSE (v.hi - 65536) * 65536 + v.lo

\* The 32-bit product of two 16-bit halves, as <<high half, low half>>.
Mul16(a, b) ==
    LET A == a * (b \div 256)
        C == a * (b % 256)
        t == C + (A % 256) * 256
    IN  <<A \div 256 + t \div 65536, t % 65536>>

\* u32 * u32: [ok |-> no overflow, val |-> the product mod 2^32].
U32Mul(a, b) ==
    LET p00 == Mul16(a.lo, b.lo)
        p01 == Mul16(a.lo, b.hi)
        p10 == Mul16(a.hi, b.lo)
        p11 == Mul16(a.hi, b.hi)
        t1  == p00[1] + p01[2] + p10[2]
        t2  == p01[1] + p10[1] + p11[2] + t1 \div 65536
    IN  [ok  |-> t2 % 65536 = 0 /\ p11[1] + t2 \div 65536 = 0,
         val |-> U32(t1 % 65536, p00[2])]

\* u32::next_power_of_two: one_less_than_next_power_of_two() + 1, where the
\* former is 0 for self <= 1 and u32::MAX >> leading_zeros(self - 1) otherwise.
\* The + 1 overflows for self > 2^31: ok is FALSE and val the wrapped sum, 0.
NextPowerOfTwo(v) ==
    IF v.hi = 0 /\ v.lo <= 1 THEN [ok |-> TRUE, val |-> U32(0, 1)]
    ELSE LET p    == IF v.lo > 0 THEN U32(v.hi, v.lo - 1) ELSE U32(v.hi - 1, 65535)
             z    == IF p.hi # 0 THEN 16 - BitLen(p.hi) ELSE 32 - BitLen(p.lo)
             bits == 32 - z
         IN  IF bits = 32 THEN [ok |-> FALSE, val |-> U32(0, 0)]
             ELSE IF bits >= 16 THEN [ok |-> TRUE, val |-> U32(Pow2[bits - 16], 0)]
             ELSE [ok |-> TRUE, val |-> U32(0, Pow2[bits])]

(***************************************************************************)
(* skytex.rs: spherical harmonics                                          *)
(***************************************************************************)
\* A coefficient with the three channels written as hundredths.
Coef(r, g, b) == <<Lit(r, 100), Lit(g, 100), Lit(b, 100)>>

DEFAULT_LIGHTING ==
    << Coef(74, 74, 73), Coef(24, 25, 26), Coef(9, 9, 9), Coef(5, 5, 6),
       Coef(-1, -1, -1), Coef(-3, -3, -3), Coef(0, 0, 0), Coef(-2, -2, -2),
       Coef(4, 4, 4) >>

\* The band of coefficient index i (0-based): the inner loop of sh_windowing
\* visits 1, 3 and 5 indices for bands 0, 1 and 2.
BandOf(idx) == IF idx = 0 THEN 0 ELSE IF idx <= 3 THEN 1 ELSE 2

\* s with the reciprocal forgotten.
WindowScale_NoReciprocal(window_width, band) ==
    FAdd(F1, FMul(window_width, FromInt(band * band * (band + 1) * (band + 1))))

\* s = 1.0 / (1.0 + window_width * (band*band*(band+1)*(band+1)) as f32)
WindowScale(window_width, band) ==
    FDiv(F1, FAdd(F1, FMul(window_width,
                           FromInt(band * band * (band + 1) * (band + 1)))))

\* harmonics.coefficients[i] *= s  (i is 0-based, the sequence 1-based)
WindowCoefficient(coefficients, idx, band, window_width) ==
    [coefficients EXCEPT ![idx + 1] = V3Scale(@, WindowScale(window_width, band))]

RECURSIVE WindowFrom(_, _, _)
WindowFrom(coefficients, idx, window_width) ==
    IF idx > 8 THEN coefficients
    ELSE Then(WindowCoefficient(coefficients, idx, BandOf(idx), window_width),
              LAMBDA scaled : WindowFrom(scaled, idx + 1, window_width))

\* The whole of sh_windowing.
sh_windowing(coefficients, window_width) == WindowFrom(coefficients, 0, window_width)

PI == Num(0, 13176795, -22)

COSINE_A0 == PI

COSINE_A1 == FDiv(FMul(FromInt(2), PI), FromInt(3))

COSINE_A2 == FMul(PI, Lit(25, 100))

\* 0.282095 * COSINE_A0
K0 == FMul(Lit(282095, 1000000), COSINE_A0)

\* The literals 0.488603, 1.092548, 0.315392 and 0.546274 of sh_lookup.
K1 == Lit(488603, 1000000)

K2 == Lit(1092548, 1000000)

K20 == Lit(315392, 1000000)

K22 == Lit(546274, 1000000)

\* Vec4::new(v.x, v.y, v.z, w)
Vec4From(v, w) == <<v[1], v[2], v[3], w>>

\* 0.488603 * a * COSINE_A1
Band1Weight(a) == FMul(FMul(K1, a), COSINE_A1)

\* 1.092548 * a * b * COSINE_A2
Band2Weight(a, b) == FMul(FMul(FMul(K2, a), b), COSINE_A2)

\* The nine products coefficient * weight, in the order sh_lookup adds them.
Terms(c, n) ==
    << V3Scale(c[1], K0),
       V3Scale(c[2], Band1Weight(n[2])),
       V3Scale(c[3], Band1Weight(n[3])),
       V3Scale(c[4], Band1Weight(n[1])),
       V3Scale(c[5], Band2Weight(n[1], n[2])),
       V3Scale(c[6], Band2Weight(n[2], n[3])),
       V3Scale(c[7], FMul(FMul(K20, FSub(FMul(FMul(FromInt(3), n[3]), n[3]), F1)),
                          COSINE_A2)),
       V3Scale(c[8], Band2Weight(n[1], n[3])),
       V3Scale(c[9], FMul(FMul(K22, FSub(FMul(n[1], n[1]), FMul(n[2], n[2]))),
                          COSINE_A2)) >>

\* Channel ch of result after the nine `result += term`, from Vec3::ZERO.
Accumulate(t, ch) ==
    FAdd(FAdd(FAdd(FAdd(FAdd(FAdd(FAdd(FAdd(FAdd(F0, t[1][ch]), t[2][ch]), t[3][ch]),
        t[4][ch]), t[5][ch]), t[6][ch]), t[7][ch]), t[8][ch]), t[9][ch])

\* Vec4::new(result.x, result.y, result.z, 1.0)
Result(t) == <<Accumulate(t, 1), Accumulate(t, 2), Accumulate(t, 3), F1>>

sh_lookup(coefficients, normal) == Then(Terms(coefficients, normal), Result)

\* The literals 0.3 and 0.59 of sh_dominant_dir.
LumaR == Lit(3, 10)

LumaG == Lit(59, 100)

\* v.x * 0.3 + v.y * 0.59 + v.z
Luma(v) == FAdd(FAdd(FMul(v[1], LumaR), FMul(v[2], LumaG)), v[3])

\* The luminance-weighted band-1 vector before it is normalised.
DominantRaw(coefficients) ==
    <<Luma(coefficients[4]), Luma(coefficients[2]), Luma(coefficients[3])>>

sh_dominant_dir(coefficients) == V3Neg(Normalize(DominantRaw(coefficients)))

(***************************************************************************)
(* skytex.rs: cube geometry                                                *)
(***************************************************************************)
\* i is never negative, so Rust's truncating / and % are \div and %.
\* The corner with .mul(neg) applied to the else branch alone.
math_cubemap_corner_MulInner(n) ==
    LET neg == IF (n \div 4) % 2 = 0 THEN FromInt(1) ELSE FromInt(-1)
        nx  == ((n + 24) \div 16) % 2
        ny  == (n \div 8) % 2
        nz  == (n \div 16) % 2
        u   == ((n + 1) \div 2) % 2
        v   == (n \div 2) % 2
    IN  << IF nx # 0 THEN neg
           ELSE IF ny # 0 THEN (IF u # 0 THEN FromInt(-1) ELSE FMul(FromInt(1), neg))
           ELSE (IF u # 0 THEN FromInt(1) ELSE FMul(FromInt(-1), neg)),
           IF nx # 0 \/ nz # 0 THEN (IF v # 0 THEN FromInt(1) ELSE FromInt(-1))
           ELSE neg,
           IF nx # 0 THEN (IF u # 0 THEN FromInt(-1) ELSE FMul(FromInt(1), neg))
           ELSE IF ny # 0 THEN (IF v # 0 THEN FromInt(1) ELSE FromInt(-1))
           ELSE neg >>

math_cubemap_corner(n) ==
    LET neg == IF (n \div 4) % 2 = 0 THEN FromInt(1) ELSE FromInt(-1)
        nx  == ((n + 24) \div 16) % 2
        ny  == (n \div 8) % 2
        nz  == (n \div 16) % 2
        u   == ((n + 1) \div 2) % 2
        v   == (n \div 2) % 2
    IN  << IF nx # 0 THEN neg
           ELSE IF ny # 0 THEN FMul(IF u # 0 THEN FromInt(-1) ELSE FromInt(1), neg)
           ELSE FMul(IF u # 0 THEN FromInt(1) ELSE FromInt(-1), neg),
           IF nx # 0 \/ nz # 0 THEN (IF v # 0 THEN FromInt(1) ELSE FromInt(-1))
           ELSE neg,
           IF nx # 0 THEN FMul(IF u # 0 THEN FromInt(-1) ELSE FromInt(1), neg)
           ELSE IF ny # 0 THEN (IF v # 0 THEN FromInt(1) ELSE FromInt(-1))
           ELSE neg >>

\* <<normal, d>> of the plane through p with the given normal
PlaneThrough(normal, p) == <<normal, FNeg(Dot(normal, p))>>

plane_from_points(p1, p2, p3) ==
    PlaneThrough(Normalize(Cross(V3Sub(p2, p1), V3Sub(p3, p1))), p1)

\* The flag raised for the points behind the ray's start.
RayPoint_Behind(ray_pos, ray_dir, t) ==
    <<FLt(t, F0), V3Add(ray_pos, V3Scale(ray_dir, t))>>

\* <<t >= 0, out_pt>>
RayPoint(ray_pos, ray_dir, t) == <<FGe(t, F0), V3Add(ray_pos, V3Scale(ray_dir, t))>>

\* t = -(ray_pos.dot(normal) + d) / denominator
plane_ray_intersect(plane, ray) ==
    RayPoint(ray[1], ray[2],
             FDiv(FNeg(FAdd(Dot(ray[1], plane[1]), plane[2])), Dot(ray[2], plane[1])))

(***************************************************************************)
(* State.  The three groups belong to the three specifications; each       *)
(* specification keeps the other two groups at their idle values.          *)
(***************************************************************************)
VARIABLES
    \* the Bevy world and the Update schedule
    camera3d,       \* entities carrying Camera3d
    marker,         \* entities carrying SetupSkyTex
    skybox,         \* entity -> Skybox component, where inserted
    images,         \* Assets<Image>: the images added, handle = position
    commands,       \* the deferred command queue of setup_skytex
    phase,          \* "pre": setup_skytex has not run in this tick, "post": it has
    tick,           \* Update ticks completed
    processed,      \* entity -> number of times the loop body ran for it
    born,           \* entity -> [tick, phase] at which it was spawned
    \* one call of generate_cubemap
    lookup, face_size, light_spot_size_pct, light_spot_intensity,
    pc, light_dir, light_col, light_pt, i, y, x, size, half_px, size2, data,
    image,
    panic,          \* what the call panicked at, "" while it has not
    cand_log,       \* per face of the first loop: [normal, b, pt, before, after]
    pixel_log,      \* per raster step: [i, y, x, index, pt, spot, color]
    \* two calls of sh_windowing on the same coefficients
    harmonics, widths, win_i, win_band, win_j, win_out

ecsVars == <<camera3d, marker, skybox, images, commands, phase, tick, processed, born>>

cubeVars ==
    <<lookup, face_size, light_spot_size_pct, light_spot_intensity, pc, light_dir,
      light_col, light_pt, i, y, x, size, half_px, size2, data, image, panic,
      cand_log, pixel_log>>

winVars == <<harmonics, widths, win_i, win_band, win_j, win_out>>

vars == <<ecsVars, cubeVars, winVars>>

EcsIdle ==
    /\ camera3d = {} /\ marker = {} /\ skybox = <<>> /\ images = <<>>
    /\ commands = <<>> /\ phase = "pre" /\ tick = 0 /\ processed = <<>> /\ born = <<>>

CubeIdle ==
    /\ lookup = <<>> /\ face_size = U32(0, 0) /\ light_spot_size_pct = F0
    /\ light_spot_intensity = F0 /\ pc = "idle" /\ light_dir = <<>> /\ light_col = <<>>
    /\ light_pt = <<>> /\ i = 0 /\ y = 0 /\ x = 0 /\ size = U32(0, 0) /\ half_px = F0
    /\ size2 = 0 /\ data = <<>> /\ image = <<>> /\ panic = "" /\ cand_log = <<>> /\ pixel_log = <<>>

WinIdle ==
    /\ harmonics = <<>> /\ widths = <<>> /\ win_i = 0 /\ win_band = 0 /\ win_j = 0
    /\ win_out = <<>>

(***************************************************************************)
(* skytex.rs: SkyTexPlugin and setup_skytex in the Update schedule         *)
(***************************************************************************)
MaxCameras == 3

MaxTicks == 3

\* The query without its Without<SetupSkyTex> filter.
query_unfiltered == camera3d

\* Query<Entity, (With<Camera3d>, Without<SetupSkyTex>)>
query == camera3d \ marker

\* What the call generate_cubemap(&windowed_lighting, 16, 0.3, 6.0).unwrap()
\* hands to images.add: the extent of the image and the length of its data.
SkyImage ==
    LET side == U32ToInt(NextPowerOfTwo(U32FromInt(16)).val)
    IN  [width |-> side, height |-> side, depth_or_array_layers |-> 6,
         bytes |-> side * side * 6 * 4]

\* The entities of a set in iteration order.
RECURSIVE Ordered(_)
Ordered(S) == IF S = {} THEN <<>>
              ELSE LET e == CHOOSE m \in S : \A o \in S : m <= o
                   IN  <<e>> \o Ordered(S \ {e})

\* A Camera3d entity is spawned, by the application, at any point of a tick.
SpawnCamera ==
    /\ Cardinality(camera3d) < MaxCameras
    /\ LET e == Cardinality(camera3d) + 1
       IN  /\ camera3d' = camera3d \cup {e}
           /\ processed' = processed \o <<0>>
           /\ born' = born \o <<[tick |-> tick, phase |-> phase]>>
    /\ UNCHANGED <<marker, skybox, images, commands, phase, tick>>

\* One run of the system: for each entity of the query an image is added and
\* the insertion of (Skybox, SetupSkyTex) is queued.
setup_skytex ==
    /\ phase = "pre"
    /\ tick < MaxTicks
    /\ LET todo == Ordered(query)
       IN  /\ images' = images \o [k \in 1..Len(todo) |-> SkyImage]
           /\ commands' = commands \o
                  [k \in 1..Len(todo) |->
                      [entity |-> todo[k],
                       skybox |-> [image |-> Len(images) + k, brightness |-> 800]]]
           /\ processed' = [e \in DOMAIN processed |->
                               IF e \in query THEN processed[e] + 1 ELSE processed[e]]
    /\ phase' = "post"
    /\ UNCHANGED <<camera3d, marker, skybox, tick, born>>

\* The end of the schedule: the queued commands are applied and the tick ends.
ApplyDeferred ==
    /\ phase = "post"
    /\ marker' = marker \cup {commands[k].entity : k \in 1..Len(commands)}
    /\ skybox' = [e \in DOMAIN skybox \cup {commands[k].entity : k \in 1..Len(commands)} |->
                     IF \E k \in 1..Len(commands) : commands[k].entity = e
                     THEN (CHOOSE c \in {commands[k] : k \in 1..Len(commands)} :
                               c.entity = e).skybox
                     ELSE skybox[e]]
    /\ commands' = <<>>
    /\ phase' = "pre"
    /\ tick' = tick + 1
    /\ UNCHANGED <<camera3d, images, processed, born>>

Init == EcsIdle /\ CubeIdle /\ WinIdle

Next ==
    \/ SpawnCamera /\ UNCHANGED <<cubeVars, winVars>>
    \/ setup_skytex /\ UNCHANGED <<cubeVars, winVars>>
    \/ ApplyDeferred /\ UNCHANGED <<cubeVars, winVars>>

Spec == Init /\ [][Next]_vars

(***************************************************************************)
(* C10                                                                     *)
(***************************************************************************)
SetUp == {e \in camera3d : processed[e] >= 1}

\* The runs of setup_skytex completed at a point [tick, phase] of the schedule.
RunsBefore(at) == at.tick + (IF at.phase = "post" THEN 1 ELSE 0)

\* C10: over any sequence of Update ticks with cameras spawned at arbitrary
\* times, the loop body of setup_skytex runs exactly once per Camera3d entity:
\* an entity is never processed twice, a camera still unprocessed was spawned
\* after the last run of the system, every marked entity was processed and carries a
\* Skybox with an image of its own, once the commands are applied every
\* processed camera is marked, and the number of images added is the number
\* of cameras set up.
C10_ExactlyOnce ==
    /\ \A e \in camera3d : processed[e] <= 1
    /\ \A e \in camera3d :
          processed[e] = 0 => RunsBefore(born[e]) = RunsBefore([tick |-> tick, phase |-> phase])
    /\ \A e \in marker : e \in SetUp /\ e \in DOMAIN skybox
    /\ \A e \in DOMAIN skybox : e \in marker /\ skybox[e].image \in 1..Len(images)
    /\ \A e1, e2 \in DOMAIN skybox : e1 # e2 => skybox[e1].image # skybox[e2].image
    /\ phase = "pre" => marker = SetUp /\ commands = <<>>
    /\ Len(images) = Cardinality(SetUp)

\* Two cameras spawned in different ticks are both set up, and the system has
\* run again since.
C10_Witness ==
    /\ tick >= 2
    /\ phase = "post"
    /\ \E e1, e2 \in marker : born[e1].tick = 0 /\ born[e2].tick = 1
    /\ Len(images) = 2

(***************************************************************************)
(* skytex.rs: sh_windowing, called with two window widths on one           *)
(* coefficient set; the two calls advance together, one coefficient a step *)
(***************************************************************************)
\* Coefficient sets: the default lighting; one with zero, negative, large,
\* power-of-two and subnormal channels.
WinInputs ==
    { DEFAULT_LIGHTING,
      << Coef(200, -50, 25), <<FromInt(1), FromInt(-1), Num(0, 1, -149)>>,
         Coef(26, 99, -26), <<Num(0, 16777215, 104), Num(1, 8388608, -126), F0>>,
         Coef(33, -33, 1), <<FromInt(3), FromInt(-7), Zero(1)>>,
         Coef(-100, 100, 50), Coef(7, 11, 13), <<Num(1, 12345678, -30), F1, F1>> >> }

\* Window widths, ascending: 0, 2^-30, 1/2, 1, 3, 2^126 and +infinity.
WinWidths ==
    << F0, Num(0, 8388608, -53), Lit(1, 2), F1, FromInt(3), Num(0, 8388608, 103), Inf(0) >>

InitWindowing ==
    /\ EcsIdle /\ CubeIdle
    /\ harmonics \in WinInputs
    /\ \E a, b \in 1..Len(WinWidths) : a < b /\ widths = <<WinWidths[a], WinWidths[b]>>
    /\ win_out = <<harmonics, harmonics>>
    /\ win_i = 0 /\ win_band = 0 /\ win_j = 0

\* One pass of the inner loop in both calls: coefficient win_i is scaled by
\* the factor of band win_band; win_j runs over -band..=band.
WindowStep ==
    /\ win_band <= 2
    /\ win_out' = <<WindowCoefficient(win_out[1], win_i, win_band, widths[1]),
                    WindowCoefficient(win_out[2], win_i, win_band, widths[2])>>
    /\ win_i' = win_i + 1
    /\ IF win_j = win_band
       THEN win_band' = win_band + 1 /\ win_j' = -(win_band + 1)
       ELSE win_band' = win_band /\ win_j' = win_j + 1
    /\ UNCHANGED <<harmonics, widths>>

NextWindowing == WindowStep /\ UNCHANGED <<ecsVars, cubeVars>>

SpecWindowing == InitWindowing /\ [][NextWindowing]_vars

(***************************************************************************)
(* C4                                                                      *)
(***************************************************************************)
WinDone == win_band = 3

\* |a| <= |b|
MagLe(a, b) == FGe(FAbs(b), FAbs(a))

\* |a| < |b|
MagLt(a, b) == FLt(FAbs(a), FAbs(b))

\* C4 as stated: with 0 <= w1 < w2, every channel of every band-1 and band-2
\* coefficient is strictly smaller in magnitude after windowing with w2 than
\* after windowing with w1, and the band-0 coefficient is unchanged.
C4_StrictlySmaller ==
    WinDone =>
        /\ \A k \in 2..9 : \A c \in 1..3 : MagLt(win_out[2][k][c], win_out[1][k][c])
        /\ win_out[1][1] = harmonics[1] /\ win_out[2][1] = harmonics[1]

\* C4, amended: with 0 <= w1 < w2 and finite coefficients, no channel of a
\* band-1 or band-2 coefficient is larger in magnitude after windowing with w2
\* than after windowing with w1 (the two are equal for a zero channel and where
\* rounding absorbs the difference), nine coefficients are visited, and the
\* band-0 coefficient is unchanged by every finite width; an infinite width
\* turns it into NaN.
C4_NeverLarger ==
    WinDone =>
        /\ win_i = 9
        /\ \A k \in 2..9 : \A c \in 1..3 : MagLe(win_out[2][k][c], win_out[1][k][c])
        /\ \A n \in 1..2 :
              IF IsFinite(widths[n]) THEN win_out[n][1] = harmonics[1]
              ELSE V3IsNaN(win_out[n][1])

\* The default lighting windowed with 0 and 1: a band-1 channel shrinks
\* strictly, the zero coefficient stays zero in both.
C4_Witness ==
    /\ WinDone
    /\ harmonics = DEFAULT_LIGHTING
    /\ widths = <<F0, F1>>
    /\ MagLt(win_out[2][2][1], win_out[1][2][1])
    /\ win_out[1][7] = <<F0, F0, F0>> /\ win_out[2][7] = <<F0, F0, F0>>

(***************************************************************************)
(* skytex.rs: generate_cubemap                                             *)
(***************************************************************************)
\* The cube centre as the starting point of the loop.
Sentinel_Origin == <<F0, F0, F0>>

\* Vec3::splat(10000.0)
Sentinel == <<FromInt(10000), FromInt(10000), FromInt(10000)>>

\* Vec4 * f32
V4Scale(v, f) == <<FMul(v[1], f), FMul(v[2], f), FMul(v[3], f), FMul(v[4], f)>>

\* The test of the first loop with the flag taken as it comes.
Replaces_Forward(b, pt, current) ==
    b /\ FLt(LengthSquared(pt), LengthSquared(current))

\* if !b { if pt.length_squared() < light_pt.length_squared() { ... } }
Replaces(b, pt, current) ==
    ~b /\ FLt(LengthSquared(pt), LengthSquared(current))

\* The flip of px and py applied on no face.
FlipsFace_None(face) == FALSE

\* if i == 2
FlipsFace(face) == face = 2

\* if i == 2 { c = 1.0 - c }
Flipped(face, c) == IF FlipsFace(face) THEN FSub(F1, c) ELSE c

\* py = 1.0 - (y as f32 / size as f32 + half_px), flipped on face 2
PixelV(face, row, side, half) ==
    Flipped(face, FSub(F1, FAdd(FDiv(FromInt(row), U32ToF32(side)), half)))

\* px = x as f32 / size as f32 + half_px, flipped on face 2
PixelU(face, col, side, half) ==
    Flipped(face, FAdd(FDiv(FromInt(col), U32ToF32(side)), half))

\* pl, pr and pt of one pixel from px and py
Bilinear(face, px, py) ==
    Lerp(Lerp(math_cubemap_corner(face * 4), math_cubemap_corner(face * 4 + 3), py),
         Lerp(math_cubemap_corner(face * 4 + 1), math_cubemap_corner(face * 4 + 2), py),
         px)

\* dist < light_spot_size_pct
InLightSpot(pt, centre, pct) == FLt(AbsMaxElement(V3Sub(pt, centre)), pct)

\* i * size2 + (y as i32 * size as i32 + x as i32), in i32 arithmetic (the
\* values the model reaches are far from the i32 range).
PixelIndex(face, row, col, side, face_pixels) ==
    face * face_pixels + (row * U32AsI32(side) + col)

\* (c * 255.0).clamp(0.0, 255.0) as u8
ToByte(c) == ToU8(FClamp(FMul(c, FromInt(255)), F0, FromInt(255)))

\* The four bytes of one Vec4.
PackPixel(v) == <<ToByte(v[1]), ToByte(v[2]), ToByte(v[3]), ToByte(v[4])>>

\* The light-spot colour with the intensity applied to the colour channels only.
RgbScale(c, f) == <<FMul(c[1], f), FMul(c[2], f), FMul(c[3], f), c[4]>>

LightCol_RgbOnly(coefficients, dir, intensity) ==
    RgbScale(sh_lookup(coefficients, V3Neg(dir)), intensity)

\* sh_lookup(lookup, -light_dir) * light_spot_intensity
LightCol(coefficients, dir, intensity) ==
    V4Scale(sh_lookup(coefficients, V3Neg(dir)), intensity)

\* Lines 87-89: the light direction, the light-spot colour, the sentinel.
Begin ==
    /\ pc = "start"
    /\ light_dir' = sh_dominant_dir(lookup)
    /\ light_col' = LightCol(lookup, light_dir', light_spot_intensity)
    /\ light_pt' = Sentinel
    /\ i' = 0
    /\ pc' = "spot"
    /\ UNCHANGED <<lookup, face_size, light_spot_size_pct, light_spot_intensity, y, x,
                   size, half_px, size2, data, image, panic, cand_log, pixel_log>>

\* if !b { if pt.length_squared() < light_pt.length_squared() { light_pt = pt } }
SpotKeep(normal, b, pt) ==
    /\ light_pt' = IF Replaces(b, pt, light_pt) THEN pt ELSE light_pt
    /\ cand_log' = Append(cand_log,
           [normal |-> normal, b |-> b, pt |-> pt, before |-> light_pt,
            after |-> light_pt'])

\* One pass of the loop of lines 91-102, for face i.
SpotStep ==
    /\ pc = "spot"
    /\ \E plane \in {plane_from_points(math_cubemap_corner(i * 4),
                                       math_cubemap_corner(i * 4 + 1),
                                       math_cubemap_corner(i * 4 + 2))} :
          \E hit \in {plane_ray_intersect(plane, <<<<F0, F0, F0>>, light_dir>>)} :
              SpotKeep(plane[1], hit[1], hit[2])
    /\ IF i = 5 THEN i' = 0 /\ pc' = "size" ELSE i' = i + 1 /\ pc' = "spot"
    /\ UNCHANGED <<lookup, face_size, light_spot_size_pct, light_spot_intensity,
                   light_dir, light_col, y, x, size, half_px, size2, data, image, panic,
                   pixel_log>>

\* Lines 104-110: the side length, the half pixel, the pixel count of a face
\* and the buffer.  next_power_of_two and size * size overflow u32 for large
\* face sizes: a build with overflow checks panics there, a build without
\* them goes on with the wrapped value.
Alloc ==
    /\ pc = "size"
    /\ LET np == NextPowerOfTwo(face_size)
           sq == U32Mul(np.val, np.val)
       IN  \E overflow_checks \in BOOLEAN :
              IF overflow_checks /\ ~(np.ok /\ sq.ok)
              THEN /\ pc' = "panic"
                   /\ panic' = IF ~np.ok THEN "next_power_of_two" ELSE "size * size"
                   /\ UNCHANGED <<size, half_px, size2, data>>
              ELSE /\ size' = np.val
                   /\ half_px' = FDiv(Lit(1, 2), U32ToF32(np.val))
                   /\ size2' = U32AsI32(sq.val)
                   /\ data' = [k \in 1..(U32ToInt(sq.val) * 6) |-> <<F0, F0, F0, F0>>]
                   /\ pc' = IF np.val = U32(0, 0) THEN "pack" ELSE "raster"
                   /\ panic' = panic
    /\ i' = 0 /\ y' = 0 /\ x' = 0
    /\ UNCHANGED <<lookup, face_size, light_spot_size_pct, light_spot_intensity,
                   light_dir, light_col, light_pt, image, cand_log, pixel_log>>

\* The next position of the three nested loops, last = size - 1.
RasterAdvance(last) ==
    IF x < last THEN x' = x + 1 /\ y' = y /\ i' = i /\ pc' = "raster"
    ELSE IF y < last THEN x' = 0 /\ y' = y + 1 /\ i' = i /\ pc' = "raster"
    ELSE IF i < 5 THEN x' = 0 /\ y' = 0 /\ i' = i + 1 /\ pc' = "raster"
    ELSE x' = 0 /\ y' = 0 /\ i' = 0 /\ pc' = "pack"

\* data[index as usize] = color; a write outside data panics.
RasterStore(pt, spot, color, index) ==
    IF index < 0 \/ index >= Len(data)
    THEN /\ pc' = "panic"
         /\ panic' = "index out of bounds"
         /\ UNCHANGED <<data, pixel_log, i, y, x>>
    ELSE /\ data' = [data EXCEPT ![index + 1] = color]
         /\ pixel_log' = Append(pixel_log,
                [i |-> i, y |-> y, x |-> x, index |-> index, pt |-> pt,
                 spot |-> spot, color |-> color])
         /\ panic' = panic
         /\ RasterAdvance(U32ToInt(size) - 1)

\* let color = if dist < light_spot_size_pct { light_col } else { sh_lookup(..) }
PixelColor(pt, spot) == IF spot THEN light_col ELSE sh_lookup(lookup, Normalize(pt))

\* One pass of the innermost loop of lines 112-146: pixel (x, y) of face i.
RasterStep ==
    /\ pc = "raster"
    /\ \E pt \in {Bilinear(i, PixelU(i, x, size, half_px), PixelV(i, y, size, half_px))} :
          \E spot \in {InLightSpot(pt, light_pt, light_spot_size_pct)} :
              \E color \in {PixelColor(pt, spot)} :
                  RasterStore(pt, spot, color, PixelIndex(i, y, x, size, size2))
    /\ UNCHANGED <<lookup, face_size, light_spot_size_pct, light_spot_intensity,
                   light_dir, light_col, light_pt, size, half_px, size2, image, cand_log>>

\* Lines 148-177: the bytes and the image.
PackImage ==
    /\ pc = "pack"
    /\ LET packed == [n \in 1..Len(data) |-> PackPixel(data[n])]
       IN  image' = [width |-> size, height |-> size, depth_or_array_layers |-> 6,
                     data |-> [k \in 1..(4 * Len(data)) |->
                                  packed[((k - 1) \div 4) + 1][((k - 1) % 4) + 1]]]
    /\ pc' = "done"
    /\ UNCHANGED <<lookup, face_size, light_spot_size_pct, light_spot_intensity,
                   light_dir, light_col, light_pt, i, y, x, size, half_px, size2, data,
                   panic, cand_log, pixel_log>>

\* A set with only the band-0 coefficient non-zero.
ConstantSet(c0) ==
    LET z == <<F0, F0, F0>> IN <<c0, z, z, z, z, z, z, z, z>>

\* A set whose luminance-weighted band-1 vector is exactly (a, b, c).
DirectionalSet(a, b, c) ==
    LET z == <<F0, F0, F0>>
    IN  << Coef(74, 74, 73), <<F0, F0, FromInt(b)>>, <<F0, F0, FromInt(c)>>,
           <<F0, F0, FromInt(a)>>, z, z, z, z, z >>

\* The set setup_skytex passes: the default lighting windowed with 1.0.
WindowedLighting == sh_windowing(DEFAULT_LIGHTING, F1)

MaxFaceSize == 2

MaxDir == 1

\* The largest f32 below 1.
BelowOne == Num(0, 16777215, -24)

CubemapCall(l, n, pct, intensity) ==
    [lookup |-> l, face_size |-> n, light_spot_size_pct |-> pct,
     light_spot_intensity |-> intensity]

\* Small faces with constant and windowed lighting, every spot size and
\* intensity.
GridCalls ==
    { CubemapCall(l, U32FromInt(n), pct, intensity) :
        l \in {ConstantSet(Coef(74, 74, 73)), ConstantSet(Coef(200, -50, 25)),
               WindowedLighting},
        n \in 0..MaxFaceSize,
        pct \in {F0, Lit(3, 10), FromInt(2)},
        intensity \in {Lit(1, 2), BelowOne, FromInt(6)} }

\* One-pixel faces lit from every direction of a small integer grid, the
\* zero vector included.
DirectionCalls ==
    { CubemapCall(DirectionalSet(a, b, c), U32(0, 1), Lit(3, 10), FromInt(6)) :
        a \in -MaxDir..MaxDir, b \in -MaxDir..MaxDir, c \in -MaxDir..MaxDir }

\* The call of setup_skytex's arguments on face sizes 5, 2^16 and 2^31 + 1.
LargeCalls ==
    { CubemapCall(WindowedLighting, n, Lit(3, 10), FromInt(6)) :
        n \in {U32(0, 5), U32(1, 0), U32(32768, 1)} }

\* One-pixel faces lit along directions next to a cube edge: the first two
\* components of the luminance-weighted band-1 vector are integers one apart.
NearEdgeCalls ==
    { CubemapCall(DirectionalSet(a, b, 8253469), U32(0, 1), Lit(3, 10), FromInt(6)) :
        a \in {13011550, -13011550}, b \in {13011551, -13011551} }

InitCubemap ==
    /\ EcsIdle /\ WinIdle
    /\ \E call \in GridCalls \cup DirectionCalls \cup NearEdgeCalls \cup LargeCalls :
          /\ lookup = call.lookup
          /\ face_size = call.face_size
          /\ light_spot_size_pct = call.light_spot_size_pct
          /\ light_spot_intensity = call.light_spot_intensity
    /\ pc = "start" /\ light_dir = <<>> /\ light_col = <<>> /\ light_pt = <<>>
    /\ i = 0 /\ y = 0 /\ x = 0 /\ size = U32(0, 0) /\ half_px = F0 /\ size2 = 0
    /\ data = <<>> /\ image = <<>> /\ panic = "" /\ cand_log = <<>> /\ pixel_log = <<>>

NextCubemap ==
    \/ Begin /\ UNCHANGED <<ecsVars, winVars>>
    \/ SpotStep /\ UNCHANGED <<ecsVars, winVars>>
    \/ Alloc /\ UNCHANGED <<ecsVars, winVars>>
    \/ RasterStep /\ UNCHANGED <<ecsVars, winVars>>
    \/ PackImage /\ UNCHANGED <<ecsVars, winVars>>

SpecCubemap == InitCubemap /\ [][NextCubemap]_vars

(***************************************************************************)
(* Claims about generate_cubemap                                           *)
(***************************************************************************)
\* The call has gone past lines 104-110.
Sized == pc \in {"raster", "pack", "done"} \/ (pc = "panic" /\ panic = "index out of bounds")

\* a <= b of two u32.
U32Le(a, b) == a.hi < b.hi \/ (a.hi = b.hi /\ a.lo <= b.lo)

U32IsPowerOfTwo(v) ==
    \/ v.hi = 0 /\ \E n \in 0..15 : v.lo = Pow2[n]
    \/ v.lo = 0 /\ \E n \in 0..15 : v.hi = Pow2[n]

\* Half of a power of two above 1.
U32Half(v) == IF v.hi = 0 THEN U32(0, v.lo \div 2)
              ELSE IF v.hi = 1 THEN U32(0, 32768) ELSE U32(v.hi \div 2, 0)

\* The pixel written last: every pixel is the last one in the state that
\* follows its write.
LastPixel == pixel_log[Len(pixel_log)]

\* The indices written so far.
Written == {pixel_log[k].index : k \in 1..Len(pixel_log)}

\* C1: for every requested face size no step of generate_cubemap fails, the
\* pixel (x, y) of face i is stored at index i*size*size + y*size + x, no
\* index is written twice, and the finished image holds 6*size*size pixels of
\* 4 bytes, every one of them written.
C1_FaceMajorLayout ==
    /\ pc # "panic"
    /\ \A k \in 1..Len(pixel_log) :
          pixel_log[k].index =
              pixel_log[k].i * U32ToInt(size) * U32ToInt(size)
                  + pixel_log[k].y * U32ToInt(size) + pixel_log[k].x
    /\ Cardinality(Written) = Len(pixel_log)
    /\ pc = "done" =>
          /\ Written = 0..(6 * U32ToInt(size) * U32ToInt(size) - 1)
          /\ Len(image.data) = 4 * 6 * U32ToInt(size) * U32ToInt(size)
          /\ image.width = size /\ image.height = size

\* C2: for every requested face_size the call gets a side length, and that
\* side length is the smallest power of two that is >= face_size, 1 at least.
C2_SmallestPowerOfTwo ==
    /\ panic # "next_power_of_two"
    /\ Sized =>
          /\ U32IsPowerOfTwo(size)
          /\ U32Le(face_size, size)
          /\ size = U32(0, 1) \/ ~U32Le(face_size, U32Half(size))

\* Component-wise numerical equality of two Vec3.
V3Eq(a, b) == FEq(a[1], b[1]) /\ FEq(a[2], b[2]) /\ FEq(a[3], b[3])

\* The outward unit normal of face i: +X, -X, +Y, -Y, +Z, -Z.
FaceAxis(face) ==
    CASE face = 0 -> <<FromInt(1), F0, F0>>
      [] face = 1 -> <<FromInt(-1), F0, F0>>
      [] face = 2 -> <<F0, FromInt(1), F0>>
      [] face = 3 -> <<F0, FromInt(-1), F0>>
      [] face = 4 -> <<F0, F0, FromInt(1)>>
      [] OTHER -> <<F0, F0, FromInt(-1)>>

\* The coordinates in which two corners differ.
Differing(p, q) == {c \in 1..3 : p[c] # q[c]}

\* The four corners p1..p4 of face i are distinct, lie on the face of the
\* cube whose outward normal is axis, follow its perimeter, and
\* (p2 - p1) x (p3 - p1) is a positive multiple of axis.
FaceCorners(p1, p2, p3, p4, axis) ==
    /\ Cardinality({p1, p2, p3, p4}) = 4
    /\ \A p \in {p1, p2, p3, p4} : FEq(Dot(p, axis), F1)
    /\ Cardinality(Differing(p1, p2)) = 1 /\ Cardinality(Differing(p2, p3)) = 1
    /\ Cardinality(Differing(p3, p4)) = 1 /\ Cardinality(Differing(p4, p1)) = 1
    /\ V3Eq(Cross(V3Sub(p2, p1), V3Sub(p3, p1)), V3Scale(axis, FromInt(4)))

\* The 24 indices give the 8 corners of {-1, +1}^3, four to a face.
CornersOfCube ==
    /\ {math_cubemap_corner(n) : n \in 0..23}
           = {<<a, b, c>> : a \in {FromInt(1), FromInt(-1)},
                            b \in {FromInt(1), FromInt(-1)},
                            c \in {FromInt(1), FromInt(-1)}}
    /\ \A face \in 0..5 :
          FaceCorners(math_cubemap_corner(face * 4), math_cubemap_corner(face * 4 + 1),
                      math_cubemap_corner(face * 4 + 2), math_cubemap_corner(face * 4 + 3),
                      FaceAxis(face))

\* C5: the 24 indices of math_cubemap_corner give exactly the 8 corners of
\* {-1, +1}^3; indices 4i..4i+3 are the four distinct corners of face +X, -X,
\* +Y, -Y, +Z, -Z for i = 0..5, in perimeter order, with (p2 - p1) x (p3 - p1)
\* pointing outward; and the plane generate_cubemap builds for face i from its
\* first three corners has that outward unit normal.
C5_CubeCorners ==
    /\ CornersOfCube
    /\ \A k \in 1..Len(cand_log) : V3Eq(cand_log[k].normal, FaceAxis(k - 1))

\* The planes of all six faces have been built, that of face 2 with normal +Y.
C5_Witness ==
    /\ Len(cand_log) = 6
    /\ cand_log[3].normal[2] = FromInt(1)
    /\ cand_log[6].normal[3] = FromInt(-1)

\* The point the loop of lines 91-102 holds when it reaches candidate k.
CurrentAt(k) == IF k = 1 THEN Sentinel ELSE cand_log[k - 1].after

\* C6: the light-spot centre starts as the sentinel (10000, 10000, 10000) and
\* the six face planes are visited in face order; candidate k replaces the
\* current point exactly when its flag t >= 0 is false and its squared length
\* is strictly smaller than that of the current point, and otherwise the
\* current point is kept: a forward candidate is never taken, nor is a
\* candidate with an infinite or NaN coordinate.  light_pt is the point kept
\* last.
C6_NotForwardAndCloser ==
    /\ Len(cand_log) <= 6
    /\ pc \notin {"start", "spot"} => Len(cand_log) = 6
    /\ \A k \in 1..Len(cand_log) :
          /\ cand_log[k].before = CurrentAt(k)
          /\ cand_log[k].after =
                 IF ~cand_log[k].b /\ FLt(LengthSquared(cand_log[k].pt),
                                          LengthSquared(cand_log[k].before))
                 THEN cand_log[k].pt ELSE cand_log[k].before
          /\ cand_log[k].b => cand_log[k].after = cand_log[k].before
          /\ ~V3IsFinite(cand_log[k].pt) => cand_log[k].after = cand_log[k].before
    /\ pc # "start" => light_pt = CurrentAt(Len(cand_log) + 1)

\* One call in which a forward candidate nearer than the current point is
\* passed over, a candidate of a plane parallel to the ray is passed over,
\* and a candidate that is not forward replaces the sentinel.
C6_Witness ==
    /\ Len(cand_log) = 6
    /\ \E k \in 1..6 :
          /\ cand_log[k].b /\ V3IsFinite(cand_log[k].pt)
          /\ FLt(LengthSquared(cand_log[k].pt), LengthSquared(cand_log[k].before))
    /\ V3IsFinite(light_dir) /\ \E k \in 1..6 : ~V3IsFinite(cand_log[k].pt)
    /\ \E k \in 1..6 : cand_log[k].before = Sentinel /\ cand_log[k].after = cand_log[k].pt

\* The lookup is constant and directionless: coefficients 1..8 are zero.
Directionless == \A k \in 2..9 : lookup[k] = <<F0, F0, F0>>

\* The four bytes of the band-0 colour coefficients[0] * (0.282095 * COSINE_A0),
\* alpha 1.0.
BandZeroPixel == PackPixel(Vec4From(V3Scale(lookup[1], K0), F1))

\* C3: with a directionless lookup and a light_spot_size_pct in 0..2, for
\* every face size and intensity the dominant direction is NaN, no candidate
\* replaces the sentinel, no pixel is a light-spot pixel as it is written,
\* and every pixel of all six faces is the packed band-0 colour, so all pixels
\* are identical.
C3_ConstantSky ==
    Directionless =>
        /\ pc # "start" => V3IsNaN(light_dir) /\ light_pt = Sentinel
        /\ Len(pixel_log) > 0 =>
              ~LastPixel.spot /\ PackPixel(LastPixel.color) = BandZeroPixel
        /\ pc = "done" =>
              \A n \in 1..Len(image.data) : image.data[n] = BandZeroPixel[((n - 1) % 4) + 1]

\* A finished image of 24 pixels from a directionless lookup, with the widest
\* light spot.
C3_Witness ==
    /\ Directionless /\ pc = "done"
    /\ light_spot_size_pct = FromInt(2)
    /\ Len(pixel_log) = 24 /\ Len(image.data) = 96
    /\ BandZeroPixel = <<255, 0, 56, 255>>

\* A corner coordinate, -1.0 or 1.0, as an integer.
Sign(c) == IF c.s = 0 THEN 1 ELSE -1

\* Coordinate c of the bilinear interpolation of the corners of a face at
\* u = a / d and v = b / d (left edge p1 -> p4 by v, right edge p2 -> p3 by v,
\* then left -> right by u), times d * d.
BilinearTimes(face, a, b, d, c) ==
    (d - a) * (d - b) * Sign(math_cubemap_corner(face * 4)[c])
        + (d - a) * b * Sign(math_cubemap_corner(face * 4 + 3)[c])
        + a * (d - b) * Sign(math_cubemap_corner(face * 4 + 1)[c])
        + a * b * Sign(math_cubemap_corner(face * 4 + 2)[c])

\* The surface point of pixel (col, row) of a face of the given side, without
\* any flip: u = col/side + 0.5/side = (2 col + 1) / (2 side) and
\* v = 1 - (row/side + 0.5/side) = (2 side - 2 row - 1) / (2 side).
SurfacePoint(face, col, row, side) ==
    [c \in 1..3 |->
        FDiv(FromInt(BilinearTimes(face, 2 * col + 1, 2 * side - 2 * row - 1, 2 * side, c)),
             FromInt(4 * side * side))]

\* C7: the point of every pixel (x, y) of every face i, checked as the pixel
\* is written, is the bilinear interpolation of
\* the corners of the face at u = x/size + 0.5/size and
\* v = 1 - (y/size + 0.5/size); on face 2 and on no other face both are
\* flipped, so that pixel (x, y) of face 2 gets the point the unflipped
\* mapping gives pixel (size-1-x, size-1-y).
C7_BilinearFlipFaceTwo ==
    Len(pixel_log) > 0 =>
        V3Eq(LastPixel.pt,
             IF LastPixel.i = 2
             THEN SurfacePoint(2, U32ToInt(size) - 1 - LastPixel.x,
                               U32ToInt(size) - 1 - LastPixel.y, U32ToInt(size))
             ELSE SurfacePoint(LastPixel.i, LastPixel.x, LastPixel.y, U32ToInt(size)))

\* All six faces of side 8 are done, and on face 2 the flip has moved the
\* point of pixel (0, 0) to that of pixel (7, 7).
C7_Witness ==
    /\ pc = "done" /\ size = U32(0, 8)
    /\ \E k \in 1..Len(pixel_log) :
          /\ pixel_log[k].i = 2 /\ pixel_log[k].x = 0 /\ pixel_log[k].y = 0
          /\ ~V3Eq(pixel_log[k].pt, SurfacePoint(2, 0, 0, 8))
          /\ V3Eq(pixel_log[k].pt, SurfacePoint(2, 7, 7, 8))

\* The loop of lines 91-102 has run over all six faces.
SpotChosen == pc \notin {"idle", "start", "spot"}

\* light_dir is finite and not the zero vector.
FiniteNonZero(v) == V3IsFinite(v) /\ \E c \in 1..3 : ~FEq(v[c], F0)

\* The smallest f32 above 1.
AboveOne == Num(0, 8388609, -23)

\* light_pt is -light_dir times the positive number 1 / |light_dir[c]| of a
\* non-zero coordinate c of light_dir.
LeavesAlong(c) ==
    /\ ~FEq(light_dir[c], F0)
    /\ FLt(F0, FDiv(F1, FAbs(light_dir[c])))
    /\ V3Eq(light_pt, V3Scale(V3Neg(light_dir), FDiv(F1, FAbs(light_dir[c]))))

\* C8 as stated: for every finite non-zero light_dir the point kept after the
\* six-plane loop has largest absolute coordinate equal to 1, is a positive
\* multiple of -light_dir and is not the sentinel.
C8_OnCubeSurface ==
    (SpotChosen /\ FiniteNonZero(light_dir)) =>
        /\ FEq(AbsMaxElement(light_pt), F1)
        /\ \E c \in 1..3 : LeavesAlong(c)
        /\ light_pt # Sentinel

\* C8: for every finite non-zero light_dir the point kept after the six-plane
\* loop is not the sentinel and is -light_dir times the positive f32
\* 1 / |light_dir[c]| of a non-zero coordinate c, so that its largest absolute
\* coordinate is 1 up to the rounding of that quotient and product: it is
\* 1 - 2^-24, 1 or 1 + 2^-23.
C8_OnCubeSurfaceRounded ==
    (SpotChosen /\ FiniteNonZero(light_dir)) =>
        /\ AbsMaxElement(light_pt) \in {BelowOne, F1, AboveOne}
        /\ \E c \in 1..3 : LeavesAlong(c)
        /\ light_pt # Sentinel

\* A direction through a cube edge with a zero component: the point kept has
\* left the sentinel and its largest absolute coordinate is 1 - 2^-24.
C8_Witness ==
    /\ SpotChosen /\ FiniteNonZero(light_dir)
    /\ FEq(light_dir[3], F0) /\ FEq(FAbs(light_dir[1]), FAbs(light_dir[2]))
    /\ light_pt # Sentinel
    /\ AbsMaxElement(light_pt) = BelowOne

\* clamp(light_spot_intensity * 255, 0, 255) truncated to 8 bits
SpotAlpha == ToU8(FClamp(FMul(light_spot_intensity, FromInt(255)), F0, FromInt(255)))

\* The alpha byte of pixel n (from 0) of the emitted buffer.
AlphaByte(n) == image.data[4 * n + 4]

\* C9: every pixel that takes the SH-evaluated ambient colour has alpha byte
\* 255 and every light-spot pixel has alpha byte
\* clamp(light_spot_intensity * 255, 0, 255) truncated to 8 bits, as the pixel
\* is written and in the emitted buffer; the alpha byte is 255 on every pixel
\* of the buffer only when light_spot_intensity >= 1 or no pixel is a
\* light-spot pixel.
C9_AlphaFollowsIntensity ==
    /\ Len(pixel_log) > 0 =>
          PackPixel(LastPixel.color)[4] = IF LastPixel.spot THEN SpotAlpha ELSE 255
    /\ pc = "done" =>
          /\ \A k \in 1..Len(pixel_log) :
                AlphaByte(pixel_log[k].index) = IF pixel_log[k].spot THEN SpotAlpha ELSE 255
          /\ (\A n \in 0..(Len(data) - 1) : AlphaByte(n) = 255) =>
                \/ FGe(light_spot_intensity, F1)
                \/ \A k \in 1..Len(pixel_log) : ~pixel_log[k].spot

\* An emitted buffer with the intensity just below 1 that holds a light-spot
\* pixel of alpha 254 and an ambient pixel of alpha 255.
C9_Witness ==
    /\ pc = "done" /\ light_spot_intensity = BelowOne /\ SpotAlpha = 254
    /\ \E k \in 1..Len(pixel_log) :
          pixel_log[k].spot /\ AlphaByte(pixel_log[k].index) = 254
    /\ \E k \in 1..Len(pixel_log) :
          ~pixel_log[k].spot /\ AlphaByte(pixel_log[k].index) = 255
====
